---- MODULE Spec2Model ----
(***************************************************************************)
(* Model of securedrop_export.disk.cli.CLI: the removable-storage export   *)
(* pipeline (unlock_volume, _mount_volume, write_data_to_device, cleanup,  *)
(* _close_volume, _remove_temp_directory).                                 *)
(*                                                                         *)
(* Every external command (subprocess.check_call, pexpect.spawn/expect,    *)
(* os.path.exists) is one step whose outcome is chosen by the environment. *)
(* The commands issued during the running call are recorded, in order, in  *)
(* the history variable log.                                               *)
(***************************************************************************)
EXTENDS Integers, Sequences, FiniteSets, TLC

VARIABLES
    pc,                   \* position of the running call
    op,                   \* the public method the caller invoked ("" when idle)
    volume,               \* the Volume / MountedVolume argument of the call
    encryption_key,       \* unlock_volume: the passphrase argument
    full_unlocked_name,   \* _mount_volume: parameter, reassigned at line 389
    mountpoint,           \* _mount_volume: local, None modelled as ""
    retries,              \* _mount_volume: iterations of the readiness loop done
    exitstatus,           \* unlock_volume: child.exitstatus after child.close()
    children,             \* pexpect children spawned and not yet closed
    is_error,             \* write_data_to_device / cleanup: is_error
    should_close_volume,  \* cleanup: should_close_volume
    error_status,         \* cleanup: local error_status
    pending,              \* write_data_to_device: exception in flight during finally
    closed,               \* _close_volume: its return value
    result,               \* how the call ended
    log,                  \* commands issued by the running call, oldest first
    targets,              \* get_volume: device identifiers listed by udisksctl status
    todo,                 \* get_volume: lsblk records still to be inspected
    volumes,              \* get_volume: local volumes
    mounted,              \* environment: devices whose filesystem is mounted
    run,                  \* caller: how far get_volume, unlock_volume have come
    api                   \* API client: the call in progress and the response it got

vars == <<pc, op, volume, encryption_key, full_unlocked_name, mountpoint, retries,
          exitstatus, children, is_error, should_close_volume, error_status,
          pending, closed, result, log, targets, todo, volumes, mounted, run, api>>

----------------------------------------------------------------------------
(* Constants of the source and the input domains of the model.             *)

_DEV_PREFIX == "/dev/"

_DEVMAPPER_PREFIX == "/dev/mapper/"

max_retries == 3

\* prompt, expected, expected_info, expected_mount: the pattern lists given to
\* child.expect; expect returns the 0-based index of the pattern that matched.
prompt == <<"Passphrase", "EOF", "TIMEOUT">>

expected == <<"Unlocked", "AlreadyUnlocked", "IncorrectPassphrase", "EOF", "TIMEOUT">>

expected_info == <<"PreferredDevice", "ErrorLookingUp", "EOF", "TIMEOUT">>

expected_mount == <<"Mounted", "AlreadyMounted", "ErrorLookingUp", "EOF", "TIMEOUT">>

\* Index(patterns): the values child.expect(patterns) can return.
Index(patterns) == 0 .. (Len(patterns) - 1)

EncryptionScheme == {"LUKS", "VERACRYPT", "UNKNOWN"}

DeviceNames == {"/dev/sda1", "/dev/sda2"}

MapperNames == {"/dev/mapper/luks-1", "/dev/dm-0"}

\* Paths a mount pattern can capture; "" is an empty capture.
Mountpoints == {"", "/media/usb", "/media/usb1"}

Passphrases == {"correct", "wrong"}

\* Outcomes of subprocess.check_call: exit 0, CalledProcessError, OSError.
CheckCallOutcomes == {"ok", "CalledProcessError", "OSError"}

\* child.exitstatus values after close.
ExitStatuses == {0, 1, 2}

NoValue == [cls |-> "None", device_name |-> "", encryption |-> "",
            unlocked_name |-> "", mountpoint |-> ""]

Volume(device_name, encryption) ==
    [cls |-> "Volume", device_name |-> device_name, encryption |-> encryption,
     unlocked_name |-> "", mountpoint |-> ""]

MountedVolume(device_name, unlocked_name, encryption, mp) ==
    [cls |-> "MountedVolume", device_name |-> device_name, encryption |-> encryption,
     unlocked_name |-> unlocked_name, mountpoint |-> mp]

Volumes == {Volume(d, e) : d \in DeviceNames, e \in EncryptionScheme}

MountedVolumes ==
    {MountedVolume(d, u, e, m) : d \in DeviceNames, u \in MapperNames,
                                 e \in EncryptionScheme, m \in Mountpoints \ {""}}

\* Input domains of get_volume: the rows of `udisksctl status` after the
\* header (a row is its whitespace-separated tokens, <<>> a blank line) and the
\* records of `lsblk --json`.
MaxRows == 2

MaxPartitions == 2

SeqsUpTo(S, n) == UNION {[1 .. k -> S] : k \in 0 .. n}

Rows == {<<>>, <<"Kingston", "sda">>, <<"Generic", "Flash", "sdb">>}

StatusOutputs == SeqsUpTo(Rows, MaxRows)

FsTypes == {"crypto_LUKS", "vfat"}

\* The children lsblk can report under a partition: none, one crypt mapping
\* (unmounted or mounted), one child of another type, two mappings.
CryptChild(mp) == [name |-> "luks-1", type |-> "crypt", mountpoint |-> mp]

ChildLists ==
    {<<>>, <<CryptChild("")>>, <<CryptChild("/media/usb")>>,
     <<[name |-> "vg-lv", type |-> "lvm", mountpoint |-> ""]>>,
     <<CryptChild(""), CryptChild("/media/usb")>>}

PartitionName(device_name, i) ==
    device_name \o (IF i = 1 THEN "1" ELSE IF i = 2 THEN "2" ELSE "3")

\* The partition lists of a device: partition i is named <device>i.
PartitionLists(device_name) ==
    UNION {{[i \in 1 .. k |-> [name |-> PartitionName(device_name, i),
                                fstype |-> shape[i].fstype,
                                children |-> shape[i].children]] :
              shape \in [1 .. k -> [fstype : FsTypes, children : ChildLists]]} :
           k \in 0 .. MaxPartitions}

\* A removable disk, whole or partitioned, and a second disk without partitions.
LsblkDevices ==
    {[name |-> "sda", ro |-> ro, fstype |-> "", has_children |-> TRUE, children |-> c] :
        ro \in BOOLEAN, c \in PartitionLists("sda")}
    \cup {[name |-> n, ro |-> ro, fstype |-> f, has_children |-> FALSE, children |-> <<>>] :
        n \in {"sda", "sdb"}, ro \in BOOLEAN, f \in FsTypes}

\* The "blockdevices" lists of lsblk: at most two disks, of different names.
BlockDevices ==
    {<<>>} \cup {<<d>> : d \in LsblkDevices}
    \cup {<<d, e>> : d \in {x \in LsblkDevices : x.name = "sda"},
                     e \in {x \in LsblkDevices : x.name = "sdb"}}
    \cup {<<e, d>> : d \in {x \in LsblkDevices : x.name = "sda"},
                     e \in {x \in LsblkDevices : x.name = "sdb"}}

\* What udisksctl info shows as IdType of a block device, or the command fails.
IdTypeOutputs ==
    {"crypto_TCRYPT", "crypto_LUKS", "other", "CalledProcessError", "OSError"}

NoRun == [stage |-> 0, value |-> NoValue, cmds |-> <<>>]

\* None, the value of an identifier that was never set.
None == "None"

NoResponse == [transport |-> "", status |-> 0, body |-> ""]

NoRequest == [method |-> "", source_uuid |-> None, uuid |-> None, proxy |-> FALSE,
              response |-> NoResponse]

NoResult == [kind |-> "none", status |-> "", value |-> NoValue]

\* An entry of log: the command, its argument, its outcome and, for an expect
\* whose pattern has groups, what the groups captured.
Cmd(c, a, o) == [cmd |-> c, arg |-> a, out |-> o, match |-> <<>>]

----------------------------------------------------------------------------
Init ==
    /\ pc = "idle"
    /\ op = ""
    /\ volume = NoValue
    /\ encryption_key = ""
    /\ full_unlocked_name = ""
    /\ mountpoint = ""
    /\ retries = 0
    /\ exitstatus = -1
    /\ children = 0
    /\ is_error = FALSE
    /\ should_close_volume = TRUE
    /\ error_status = ""
    /\ pending = ""
    /\ closed = NoValue
    /\ result = NoResult
    /\ log = <<>>
    /\ targets = <<>>
    /\ todo = <<>>
    /\ volumes = <<>>
    /\ mounted = {}
    /\ run = NoRun
    /\ api = NoRequest

\* raise ExportException(sdstatus=s), propagating to the caller of the call.
Raise(s) ==
    /\ result' = [kind |-> "raise", status |-> s, value |-> NoValue]
    /\ pc' = "done"

\* return v to the caller of the call.
Return(v) ==
    /\ result' = [kind |-> "return", status |-> "", value |-> v]
    /\ pc' = "done"

\* An exception e that is not an ExportException and that no except clause on
\* the way catches leaves the call.
Escapes(e) ==
    /\ result' = [kind |-> "exception", status |-> e, value |-> NoValue]
    /\ pc' = "done"

\* The run of the caller when it makes the call: unlock_volume of the volume
\* get_volume returned and write_data_to_device on the MountedVolume
\* unlock_volume returned go on with the run; any other call ends it.
RunAt(method, v) ==
    IF /\ v = run.value
       /\ \/ method = "unlock_volume" /\ run.stage = 1
          \/ method = "write_data_to_device" /\ run.stage = 2
      THEN run
      ELSE NoRun

----------------------------------------------------------------------------
(* write_data_to_device                                                    *)

\* The caller invokes write_data_to_device(device, tmpdir, dirname).
Call_write_data_to_device(device) ==
    /\ pc = "idle"
    /\ op' = "write_data_to_device"
    /\ volume' = device
    /\ is_error' = FALSE
    /\ pc' = "mkdir"
    /\ run' = RunAt("write_data_to_device", device)
    /\ UNCHANGED <<targets, todo, volumes, mounted, api>>
    /\ UNCHANGED <<encryption_key, full_unlocked_name, mountpoint, retries, exitstatus,
                   children, should_close_volume, error_status, pending, closed,
                   result, log>>

\* A mutation of ExceptExport: the flag for cleanup is not set.
ExceptExport_FlagNotSet ==
    /\ UNCHANGED is_error
    /\ pending' = "ERROR_EXPORT"
    /\ pc' = "finally"

\* The except clause: is_error = True and ERROR_EXPORT is in flight when the
\* finally clause starts.
ExceptExport ==
    /\ is_error' = TRUE
    /\ pending' = "ERROR_EXPORT"
    /\ pc' = "finally"

\* subprocess.check_call(["mkdir", target_path])
Mkdir ==
    /\ pc = "mkdir"
    /\ \E out \in CheckCallOutcomes :
        /\ log' = Append(log, Cmd("mkdir", volume.mountpoint, out))
        /\ IF out = "ok"
             THEN /\ pc' = "cp"
                  /\ UNCHANGED <<is_error, pending>>
             ELSE ExceptExport
    /\ UNCHANGED <<targets, todo, volumes, mounted, run, api>>
    /\ UNCHANGED <<op, volume, encryption_key, full_unlocked_name, mountpoint, retries,
                   exitstatus, children, should_close_volume, error_status, closed,
                   result>>

\* subprocess.check_call(["cp", "-r", export_data, target_path])
Cp ==
    /\ pc = "cp"
    /\ \E out \in CheckCallOutcomes :
        /\ log' = Append(log, Cmd("cp", volume.mountpoint, out))
        /\ IF out = "ok"
             THEN /\ pc' = "finally"
                  /\ UNCHANGED <<is_error, pending>>
             ELSE ExceptExport
    /\ UNCHANGED <<targets, todo, volumes, mounted, run, api>>
    /\ UNCHANGED <<op, volume, encryption_key, full_unlocked_name, mountpoint, retries,
                   exitstatus, children, should_close_volume, error_status, closed,
                   result>>

----------------------------------------------------------------------------
(* cleanup                                                                 *)

\* A mutation of ErrorStatus: is_error is ignored.
ErrorStatus_AlwaysCleanup(is_err) == "ERROR_EXPORT_CLEANUP"

\* error_status = Status.ERROR_EXPORT if is_error else Status.ERROR_EXPORT_CLEANUP
ErrorStatus(is_err) == IF is_err THEN "ERROR_EXPORT" ELSE "ERROR_EXPORT_CLEANUP"

\* Entry of cleanup(volume, tmpdir, is_err, scv): recorded in the log.
EnterCleanup(is_err, scv) ==
    /\ is_error' = is_err
    /\ should_close_volume' = scv
    /\ error_status' = ErrorStatus(is_err)
    /\ log' = Append(log, Cmd("cleanup", IF scv THEN "close" ELSE "keep",
                              IF is_err THEN "is_error" ELSE "no_error"))
    /\ pc' = "sync"

\* A mutation of Finally: cleanup is not called.
Finally_NoCleanup ==
    /\ pc = "finally"
    /\ IF pending # "" THEN Raise(pending) ELSE Return(NoValue)
    /\ UNCHANGED <<targets, todo, volumes, mounted, run, api>>
    /\ UNCHANGED <<op, volume, encryption_key, full_unlocked_name, mountpoint, retries,
                   exitstatus, children, pending, closed, is_error, should_close_volume,
                   error_status, log>>

\* finally: self.cleanup(device, submission_tmpdir, is_error)
Finally ==
    /\ pc = "finally"
    /\ EnterCleanup(is_error, TRUE)
    /\ UNCHANGED <<targets, todo, volumes, mounted, run, api>>
    /\ UNCHANGED <<op, volume, encryption_key, full_unlocked_name, mountpoint, retries,
                   exitstatus, children, pending, closed, result>>

\* The caller invokes cleanup directly.
Call_cleanup(mv, is_err, scv) ==
    /\ pc = "idle"
    /\ op' = "cleanup"
    /\ volume' = mv
    /\ EnterCleanup(is_err, scv)
    /\ run' = RunAt("cleanup", mv)
    /\ UNCHANGED <<targets, todo, volumes, mounted, api>>
    /\ UNCHANGED <<encryption_key, full_unlocked_name, mountpoint, retries, exitstatus,
                   children, pending, closed, result>>

\* A mutation of CleanupReturns: the exception in flight is dropped.
CleanupReturns_DropsPending == Return(NoValue)

\* cleanup returns normally. Inside write_data_to_device this ends the finally
\* clause: an exception in flight is re-raised, otherwise the method returns.
CleanupReturns ==
    IF op = "write_data_to_device" /\ pending # ""
      THEN Raise(pending)
      ELSE Return(NoValue)

\* subprocess.check_call(["sync"]); CalledProcessError is caught by cleanup's
\* except clause and re-raised with error_status; OSError is not caught.
Sync ==
    /\ pc = "sync"
    /\ \E out \in CheckCallOutcomes :
        /\ log' = Append(log, Cmd("sync", "", out))
        /\ IF out = "ok"
             THEN /\ pc' = "rm"
                  /\ UNCHANGED result
             ELSE IF out = "CalledProcessError"
                    THEN Raise(error_status)
                    ELSE Escapes(out)
    /\ UNCHANGED <<targets, todo, volumes, mounted, run, api>>
    /\ UNCHANGED <<op, volume, encryption_key, full_unlocked_name, mountpoint, retries,
                   exitstatus, children, is_error, should_close_volume, error_status,
                   pending, closed>>

\* A mutation of RemoveTempDirectoryStatus.
RemoveTempDirectoryStatus_Export == "ERROR_EXPORT"

\* _remove_temp_directory: CalledProcessError is raised as ExportException,
\* which the except clause of cleanup (CalledProcessError only) does not catch.
RemoveTempDirectoryStatus == "ERROR_EXPORT_CLEANUP"

\* A mutation of ShouldClose: the volume is closed whatever the option says.
ShouldClose_Always(scv) == TRUE

\* if should_close_volume: (line 471)
ShouldClose(scv) == scv

\* A mutation of RemoveTempDirectory: _close_volume is entered at its lock step.
RemoveTempDirectory_LockFirst ==
    /\ pc = "rm"
    /\ \E out \in CheckCallOutcomes :
        /\ log' = Append(log, Cmd("rm", "tmpdir", out))
        /\ IF out = "CalledProcessError"
             THEN Raise(RemoveTempDirectoryStatus)
             ELSE IF out = "OSError"
             THEN Escapes(out)
             ELSE IF ShouldClose(should_close_volume)
                    THEN /\ pc' = "lock"
                         /\ UNCHANGED result
                    ELSE CleanupReturns
    /\ UNCHANGED <<targets, todo, volumes, mounted, run, api>>
    /\ UNCHANGED <<op, volume, encryption_key, full_unlocked_name, mountpoint, retries,
                   exitstatus, children, is_error, should_close_volume, error_status,
                   pending, closed>>

RemoveTempDirectory ==
    /\ pc = "rm"
    /\ \E out \in CheckCallOutcomes :
        /\ log' = Append(log, Cmd("rm", "tmpdir", out))
        /\ IF out = "CalledProcessError"
             THEN Raise(RemoveTempDirectoryStatus)
             ELSE IF out = "OSError"
             THEN Escapes(out)
             ELSE IF ShouldClose(should_close_volume)
                    THEN /\ pc' = "unmount"
                         /\ UNCHANGED result
                    ELSE CleanupReturns
    /\ UNCHANGED <<targets, todo, volumes, mounted, run, api>>
    /\ UNCHANGED <<op, volume, encryption_key, full_unlocked_name, mountpoint, retries,
                   exitstatus, children, is_error, should_close_volume, error_status,
                   pending, closed>>

----------------------------------------------------------------------------
(* _close_volume                                                           *)

\* A mutation of Unmount: with the mountpoint gone _close_volume returns at once,
\* without the test of the unlocked device.
Unmount_AbsentSkipsLock ==
    /\ pc = "unmount"
    /\ \E out \in {"absent"} \cup CheckCallOutcomes :
        /\ log' = Append(log, Cmd("unmount", volume.unlocked_name, out))
        /\ mounted' = IF out = "ok" THEN mounted \ {volume.device_name} ELSE mounted
        /\ IF out = "CalledProcessError"
             THEN Raise("ERROR_UNMOUNT_VOLUME_BUSY")
             ELSE IF out = "OSError"
             THEN Escapes(out)
             ELSE IF out = "absent"
             THEN CleanupReturns
             ELSE /\ pc' = "lock"
                  /\ UNCHANGED result
    /\ UNCHANGED <<targets, todo, volumes, run, api>>
    /\ UNCHANGED <<op, volume, encryption_key, full_unlocked_name, mountpoint, retries,
                   exitstatus, children, is_error, should_close_volume, error_status,
                   pending, closed>>

\* if os.path.exists(mv.mountpoint): udisksctl unmount --block-device unlocked_name.
\* The outcome "absent" records that the path does not exist: no command is run.
Unmount ==
    /\ pc = "unmount"
    /\ \E out \in {"absent"} \cup CheckCallOutcomes :
        /\ log' = Append(log, Cmd("unmount", volume.unlocked_name, out))
        /\ mounted' = IF out = "ok" THEN mounted \ {volume.device_name} ELSE mounted
        /\ IF out = "CalledProcessError"
             THEN Raise("ERROR_UNMOUNT_VOLUME_BUSY")
             ELSE IF out = "OSError"
             THEN Escapes(out)
             ELSE /\ pc' = "lock"
                  /\ UNCHANGED result
    /\ UNCHANGED <<targets, todo, volumes, run, api>>
    /\ UNCHANGED <<op, volume, encryption_key, full_unlocked_name, mountpoint, retries,
                   exitstatus, children, is_error, should_close_volume, error_status,
                   pending, closed>>

\* if os.path.exists(mv.unlocked_name): udisksctl lock --block-device device_name
\* ("absent": the device node does not exist, no command is run);
\* then return Volume(_DEV_PREFIX + mv.device_name, mv.encryption) to cleanup.
Lock ==
    /\ pc = "lock"
    /\ \E out \in {"absent"} \cup CheckCallOutcomes :
        /\ log' = Append(log, Cmd("lock", volume.device_name, out))
        /\ IF out = "CalledProcessError"
             THEN /\ Raise("ERROR_EXPORT_CLEANUP")
                  /\ UNCHANGED closed
             ELSE IF out = "OSError"
             THEN /\ Escapes(out)
                  /\ UNCHANGED closed
             ELSE /\ closed' = Volume(_DEV_PREFIX \o volume.device_name, volume.encryption)
                  /\ CleanupReturns
    /\ UNCHANGED <<targets, todo, volumes, mounted, run, api>>
    /\ UNCHANGED <<op, volume, encryption_key, full_unlocked_name, mountpoint, retries,
                   exitstatus, children, is_error, should_close_volume, error_status,
                   pending>>

----------------------------------------------------------------------------
(* unlock_volume                                                           *)

\* The caller invokes unlock_volume(volume, encryption_key).
Call_unlock_volume(v, key) ==
    /\ pc = "idle"
    /\ op' = "unlock_volume"
    /\ volume' = v
    /\ encryption_key' = key
    /\ pc' = "spawn_unlock"
    /\ run' = RunAt("unlock_volume", v)
    /\ UNCHANGED <<targets, todo, volumes, mounted, api>>
    /\ UNCHANGED <<full_unlocked_name, mountpoint, retries, exitstatus, children,
                   is_error, should_close_volume, error_status, pending, closed,
                   result, log>>

\* child = pexpect.spawn("udisksctl unlock --block-device <device_name>")
SpawnUnlock ==
    /\ pc = "spawn_unlock"
    /\ children' = children + 1
    /\ log' = Append(log, Cmd("unlock", volume.device_name, "spawn"))
    /\ pc' = "expect_prompt"
    /\ UNCHANGED <<targets, todo, volumes, mounted, run, api>>
    /\ UNCHANGED <<op, volume, encryption_key, full_unlocked_name, mountpoint, retries,
                   exitstatus, is_error, should_close_volume, error_status, pending,
                   closed, result>>

\* A mutation of PromptReceived: only TIMEOUT counts as a missing prompt.
PromptReceived_EofAccepted(index) == index # 2

\* The test of line 279 (if index != 0 ... else): the prompt was matched.
PromptReceived(index) == index = 0

\* index = child.expect(prompt); without the prompt ERROR_UNLOCK_GENERIC is
\* raised with the child left open, with it the passphrase is sent.
ExpectPrompt ==
    /\ pc = "expect_prompt"
    /\ \E index \in Index(prompt) :
        IF ~PromptReceived(index)
          THEN /\ log' = Append(log, Cmd("expect_prompt", "", prompt[index + 1]))
               /\ Raise("ERROR_UNLOCK_GENERIC")
          ELSE /\ log' = log \o <<Cmd("expect_prompt", "", prompt[index + 1]),
                                  Cmd("sendline", "", encryption_key)>>
               /\ pc' = "expect_unlock"
               /\ UNCHANGED result
    /\ UNCHANGED <<targets, todo, volumes, mounted, run, api>>
    /\ UNCHANGED <<op, volume, encryption_key, full_unlocked_name, mountpoint, retries,
                   exitstatus, children, is_error, should_close_volume, error_status,
                   pending, closed>>

\* Mutations of UnlockError: the specific status is lost; EOF is reported as a
\* wrong passphrase.
UnlockError_AlwaysGeneric(index) == "ERROR_UNLOCK_GENERIC"

UnlockError_EofAsLuks(index) ==
    IF index \in {2, 3} THEN "ERROR_UNLOCK_LUKS" ELSE "ERROR_UNLOCK_GENERIC"

\* The status raised for an index of expected other than 0 and 1.
UnlockError(index) ==
    IF index = 2 THEN "ERROR_UNLOCK_LUKS" ELSE "ERROR_UNLOCK_GENERIC"

\* A mutation of ProceedsToMount: an exit status outside 0 and 1 is an error.
ProceedsToMount_ExitStatusChecked(index, status) ==
    (index = 0 \/ index = 1) /\ status \in {0, 1}

\* Lines 286-298: with index 0 or 1 the child is closed and _mount_volume is
\* called; an exit status outside 0 and 1 is logged as a warning only.
ProceedsToMount(index, status) == index = 0 \/ index = 1

\* index = child.expect(expected) and the branches on it: 0 and 1 capture
\* dm_name, close the child and go on to _mount_volume(volume, dm_name); any
\* other index closes the child and raises unlock_error.
ExpectUnlock ==
    /\ pc = "expect_unlock"
    /\ \E index \in Index(expected), dm_name \in MapperNames,
          status \in ExitStatuses :
        /\ exitstatus' = status
        /\ children' = children - 1
        /\ IF ProceedsToMount(index, status)
             THEN /\ log' = Append(log, Cmd("expect_unlock", dm_name, expected[index + 1]))
                  /\ full_unlocked_name' = dm_name
                  /\ mountpoint' = ""
                  /\ retries' = 0
                  /\ pc' = "info"
                  /\ UNCHANGED result
             ELSE /\ log' = Append(log, Cmd("expect_unlock", "", expected[index + 1]))
                  /\ Raise(UnlockError(index))
                  /\ UNCHANGED <<full_unlocked_name, mountpoint, retries>>
    /\ UNCHANGED <<targets, todo, volumes, mounted, run, api>>
    /\ UNCHANGED <<op, volume, encryption_key, is_error, should_close_volume,
                   error_status, pending, closed>>

----------------------------------------------------------------------------
(* _mount_volume                                                           *)

\* A mutation of InfoRecognized: the loop does not break on a match.
InfoRecognized_Never(index) == FALSE

\* if index != 0: ... else: break (lines 363-370)
InfoRecognized(index) == index = 0

\* A mutation of Info: the loop starts over when its iterations are used up
\* (the polls after the first are not recorded).
Info_StartsOver ==
    /\ pc = "info"
    /\ retries < max_retries
    /\ \E index \in Index(expected_info) :
        IF InfoRecognized(index)
          THEN /\ log' = Append(log, Cmd("info", volume.device_name, expected_info[1]))
               /\ retries' = retries + 1
               /\ pc' = "mount"
          ELSE /\ log' = IF retries = 0
                           THEN Append(log, Cmd("info", volume.device_name, "NotRecognized"))
                           ELSE log
               /\ retries' = IF retries + 1 = max_retries THEN 1 ELSE retries + 1
               /\ pc' = "info"
    /\ UNCHANGED <<targets, todo, volumes, mounted, run, api>>
    /\ UNCHANGED <<op, volume, encryption_key, full_unlocked_name, mountpoint,
                   exitstatus, children, is_error, should_close_volume, error_status,
                   pending, closed, result>>

\* One iteration of the readiness loop: spawn udisksctl info, expect, close.
\* A match of the first pattern breaks out of the loop; otherwise sleep and
\* retry while iterations remain.
Info ==
    /\ pc = "info"
    /\ retries < max_retries
    /\ \E index \in Index(expected_info) :
        /\ log' = Append(log, Cmd("info", volume.device_name,
                                  IF index = 0 THEN expected_info[1] ELSE "NotRecognized"))
        /\ retries' = retries + 1
        /\ pc' = IF InfoRecognized(index) \/ retries + 1 = max_retries
                   THEN "mount" ELSE "info"
    /\ UNCHANGED <<targets, todo, volumes, mounted, run, api>>
    /\ UNCHANGED <<op, volume, encryption_key, full_unlocked_name, mountpoint,
                   exitstatus, children, is_error, should_close_volume, error_status,
                   pending, closed, result>>

\* The path at which udisks mounts the filesystem of a device.
MountpointOf(device_name) ==
    IF device_name = "/dev/sda1" THEN "/media/usb" ELSE "/media/usb1"

\* What the mount command can answer for a device: "Mounted <dev> at <g1>" when
\* it was not mounted (g1 can be cut to an empty capture), "<g1> is already
\* mounted at <g2>" when it was, or no match of the first two patterns.
MountAnswers(device_name) ==
    {a \in [index : Index(expected_mount), g1 : MapperNames \cup Mountpoints,
            g2 : Mountpoints] :
        /\ a.index = 0 => /\ device_name \notin mounted
                          /\ a.g1 \in {MountpointOf(device_name), ""}
                          /\ a.g2 = ""
        /\ a.index = 1 => /\ device_name \in mounted
                          /\ a.g1 \in MapperNames
                          /\ a.g2 = MountpointOf(device_name)
        /\ a.index > 1 => a.g1 = "" /\ a.g2 = ""}

\* A mutation of MountCapture: the name passed in is kept when the device is
\* mounted already.
MountCapture_PassedNameKept(index, passed_name, g1, g2) ==
    IF index = 0 THEN [unlocked_name |-> passed_name, mountpoint |-> g1]
    ELSE IF index = 1 THEN [unlocked_name |-> passed_name, mountpoint |-> g2]
    ELSE [unlocked_name |-> passed_name, mountpoint |-> ""]

\* A mutation of MountCapture: the groups of the already-mounted pattern are
\* taken in the wrong order.
MountCapture_GroupsSwapped(index, passed_name, g1, g2) ==
    IF index = 0 THEN [unlocked_name |-> passed_name, mountpoint |-> g1]
    ELSE IF index = 1 THEN [unlocked_name |-> g2, mountpoint |-> g1]
    ELSE [unlocked_name |-> passed_name, mountpoint |-> ""]

\* The branches on index of lines 380-394: the unlocked name and the mountpoint
\* after them, from the name passed in and the groups the pattern captured.
MountCapture(index, passed_name, g1, g2) ==
    IF index = 0 THEN [unlocked_name |-> passed_name, mountpoint |-> g1]
    ELSE IF index = 1 THEN [unlocked_name |-> g1, mountpoint |-> g2]
    ELSE [unlocked_name |-> passed_name, mountpoint |-> ""]

\* A mutation of HasMountpoint: the captured path is not tested.
HasMountpoint_NotTested(mp) == TRUE

\* if mountpoint: (line 398)
HasMountpoint(mp) == mp # ""

\* _mount_volume returns mv: to the caller of unlock_volume, or into the loop of
\* get_volume, which appends it to volumes and takes the next record.
MountReturns(mv) ==
    IF op = "get_volume"
      THEN /\ volumes' = Append(volumes, mv)
           /\ todo' = Tail(todo)
           /\ pc' = "inspect"
           /\ UNCHANGED result
      ELSE /\ Return(mv)
           /\ UNCHANGED <<volumes, todo>>

\* A mutation of Mount: when no mountpoint was captured the volume is locked
\* again before the call ends.
Mount_LocksOnFailure ==
    /\ pc = "mount"
    /\ \E a \in MountAnswers(volume.device_name) :
        LET c == MountCapture(a.index, full_unlocked_name, a.g1, a.g2) IN
        /\ log' = Append(log, [Cmd("mount", full_unlocked_name, expected_mount[a.index + 1])
                                  EXCEPT !.match = <<a.g1, a.g2>>])
        /\ mounted' = IF a.index = 0 THEN mounted \cup {volume.device_name} ELSE mounted
        /\ full_unlocked_name' = c.unlocked_name
        /\ mountpoint' = c.mountpoint
        /\ IF HasMountpoint(c.mountpoint)
             THEN MountReturns(MountedVolume(volume.device_name, c.unlocked_name,
                                             volume.encryption, c.mountpoint))
             ELSE /\ pc' = "lock"
                  /\ UNCHANGED <<result, volumes, todo>>
    /\ UNCHANGED <<op, volume, encryption_key, retries, exitstatus, children, is_error,
                   should_close_volume, error_status, pending, closed, targets, run, api>>

\* child = pexpect.spawn("udisksctl mount --block-device <full_unlocked_name>"),
\* index = child.expect(expected_mount), the branches on index, child.close()
\* and the final test of mountpoint.
Mount ==
    /\ pc = "mount"
    /\ \E a \in MountAnswers(volume.device_name) :
        LET c == MountCapture(a.index, full_unlocked_name, a.g1, a.g2) IN
        /\ log' = Append(log, [Cmd("mount", full_unlocked_name, expected_mount[a.index + 1])
                                  EXCEPT !.match = <<a.g1, a.g2>>])
        /\ mounted' = IF a.index = 0 THEN mounted \cup {volume.device_name} ELSE mounted
        /\ full_unlocked_name' = c.unlocked_name
        /\ mountpoint' = c.mountpoint
        /\ IF HasMountpoint(c.mountpoint)
             THEN MountReturns(MountedVolume(volume.device_name, c.unlocked_name,
                                             volume.encryption, c.mountpoint))
             ELSE /\ Raise("ERROR_MOUNT")
                  /\ UNCHANGED <<volumes, todo>>
    /\ UNCHANGED <<op, volume, encryption_key, retries, exitstatus, children, is_error,
                   should_close_volume, error_status, pending, closed, targets, run, api>>

----------------------------------------------------------------------------
(* get_volume                                                              *)

\* The caller invokes get_volume().
Call_get_volume ==
    /\ pc = "idle"
    /\ op' = "get_volume"
    /\ pc' = "status"
    /\ run' = NoRun
    /\ UNCHANGED api
    /\ UNCHANGED <<volume, encryption_key, full_unlocked_name, mountpoint, retries,
                   exitstatus, children, is_error, should_close_volume, error_status,
                   pending, closed, result, log, targets, todo, volumes, mounted>>

\* Lines 73-77: the last token of every row that has one.
RECURSIVE Targets(_)
Targets(usbs) ==
    IF usbs = <<>>
      THEN <<>>
      ELSE LET item == Head(usbs) IN
           (IF Len(item) > 0 THEN <<item[Len(item)]>> ELSE <<>>) \o Targets(Tail(usbs))

\* A mutation of TargetCountStatus: several targets go undetected.
TargetCountStatus_MultiUndetected(n) ==
    IF n = 0 THEN "NO_DEVICE_DETECTED" ELSE ""

\* Lines 79-86: the status raised for a number of targets, "" for none.
TargetCountStatus(n) ==
    IF n = 0 THEN "NO_DEVICE_DETECTED"
    ELSE IF n > 1 THEN "MULTI_DEVICE_DETECTED"
    ELSE ""

\* subprocess.check_output(["udisksctl", "status"]), the targets and the test of
\* their number; CalledProcessError is re-raised as DEVICE_ERROR (line 139).
Status ==
    /\ pc = "status"
    /\ \/ /\ log' = Append(log, Cmd("status", "", "CalledProcessError"))
          /\ Raise("DEVICE_ERROR")
          /\ UNCHANGED targets
       \/ /\ log' = Append(log, Cmd("status", "", "OSError"))
          /\ Escapes("OSError")
          /\ UNCHANGED targets
       \/ \E usbs \in StatusOutputs :
            /\ log' = Append(log, Cmd("status", "", "ok"))
            /\ targets' = Targets(usbs)
            /\ IF TargetCountStatus(Len(Targets(usbs))) # ""
                 THEN Raise(TargetCountStatus(Len(Targets(usbs))))
                 ELSE /\ pc' = "lsblk"
                      /\ UNCHANGED result
    /\ UNCHANGED <<op, volume, encryption_key, full_unlocked_name, mountpoint, retries,
                   exitstatus, children, is_error, should_close_volume, error_status,
                   pending, closed, todo, volumes, mounted, run, api>>

\* device.get("name") in targets
InTargets(name, tg) == \E i \in DOMAIN tg : tg[i] = name

\* A mutation of IsCandidateDevice: the read-only flag is not looked at.
IsCandidateDevice_RoIgnored(device, tg) == InTargets(device.name, tg)

\* Line 110: the device is listed by udisks and is writable.
IsCandidateDevice(device, tg) == InTargets(device.name, tg) /\ device.ro = FALSE

\* Lines 109-126: the records handed to _get_supported_volume, in order: the
\* children of every candidate device that has the key "children", the device
\* itself (which then has no children) otherwise.
RECURSIVE Candidates(_, _)
Candidates(blockdevices, tg) ==
    IF blockdevices = <<>>
      THEN <<>>
      ELSE LET device == Head(blockdevices) IN
           (IF IsCandidateDevice(device, tg)
              THEN IF device.has_children
                     THEN device.children
                     ELSE <<[name |-> device.name, fstype |-> device.fstype,
                             children |-> <<>>]>>
              ELSE <<>>)
           \o Candidates(Tail(blockdevices), tg)

\* A mutation of NoBlockDevices: the test is dropped.
NoBlockDevices_NotTested(blockdevices) == FALSE

\* if not lsblk_json.get("blockdevices") (line 102)
NoBlockDevices(blockdevices) == blockdevices = <<>>

\* History: whether the topology holds a device that udisks lists and that is
\* not read-only.
WritableAttached(blockdevices, tg) ==
    IF \E i \in DOMAIN blockdevices :
          /\ \E j \in DOMAIN tg : tg[j] = blockdevices[i].name
          /\ ~blockdevices[i].ro
      THEN "writable attached device"
      ELSE "no writable attached device"

\* subprocess.check_output(["lsblk", ...]), json.loads and the test of
\* "blockdevices"; CalledProcessError and JSONDecodeError are re-raised as
\* DEVICE_ERROR (lines 135-140).
Lsblk ==
    /\ pc = "lsblk"
    /\ \/ /\ \E out \in {"CalledProcessError", "JSONDecodeError"} :
                log' = Append(log, Cmd("lsblk", "", out))
          /\ Raise("DEVICE_ERROR")
          /\ UNCHANGED <<todo, volumes>>
       \/ /\ log' = Append(log, Cmd("lsblk", "", "OSError"))
          /\ Escapes("OSError")
          /\ UNCHANGED <<todo, volumes>>
       \/ \E blockdevices \in BlockDevices :
            /\ log' = Append(log, Cmd("lsblk", WritableAttached(blockdevices, targets),
                                      IF blockdevices = <<>> THEN "no blockdevices" ELSE "ok"))
            /\ IF NoBlockDevices(blockdevices)
              THEN /\ Raise("DEVICE_ERROR")
                   /\ UNCHANGED <<todo, volumes>>
              ELSE /\ todo' = Candidates(blockdevices, targets)
                   /\ volumes' = <<>>
                   /\ pc' = "inspect"
                   /\ UNCHANGED result
    /\ UNCHANGED <<op, volume, encryption_key, full_unlocked_name, mountpoint, retries,
                   exitstatus, children, is_error, should_close_volume, error_status,
                   pending, closed, targets, mounted, run, api>>

\* Lines 128-133: exactly one volume is needed.
SelectVolume ==
    /\ pc = "inspect"
    /\ todo = <<>>
    /\ IF Len(volumes) # 1
         THEN Raise("INVALID_DEVICE_DETECTED")
         ELSE Return(volumes[1])
    /\ UNCHANGED <<op, volume, encryption_key, full_unlocked_name, mountpoint, retries,
                   exitstatus, children, is_error, should_close_volume, error_status,
                   pending, closed, log, targets, todo, volumes, mounted, run, api>>

----------------------------------------------------------------------------
(* _get_supported_volume, _is_it_veracrypt                                 *)

\* A mutation of InitialEncryption: any other filesystem type is taken for
\* VeraCrypt.
InitialEncryption_Veracrypt(fstype) ==
    IF fstype = "crypto_LUKS" THEN "LUKS" ELSE "VERACRYPT"

\* Lines 162-166: the encryption of vol before the children are looked at.
InitialEncryption(fstype) == IF fstype = "crypto_LUKS" THEN "LUKS" ELSE "UNKNOWN"

\* A mutation of Supported: every unlocked partition is taken, as the comment
\* of line 194 describes.
Supported_Opportunistic(encryption) == TRUE

\* vol.encryption in (EncryptionScheme.LUKS, EncryptionScheme.VERACRYPT)
Supported(encryption) == encryption \in {"LUKS", "VERACRYPT"}

\* A mutation of NeedsClassification: device info is always consulted.
NeedsClassification_Always(encryption) == TRUE

\* if vol.encryption == EncryptionScheme.UNKNOWN (line 181)
NeedsClassification(encryption) == encryption = "UNKNOWN"

\* _get_supported_volume returns item (NoValue for None) to the loop of
\* get_volume: if item: volumes.append(item).
SupportedVolumeReturns(item) ==
    /\ volumes' = IF item # NoValue THEN Append(volumes, item) ELSE volumes
    /\ todo' = Tail(todo)
    /\ pc' = "inspect"

\* _get_supported_volume(device) up to its first external command: the tests of
\* children (lines 168-177) and, for a record without children, lines 205-211.
Inspect ==
    /\ pc = "inspect"
    /\ todo # <<>>
    /\ LET device == Head(todo)
           vol == Volume(_DEV_PREFIX \o device.name, InitialEncryption(device.fstype))
       IN IF device.children # <<>>
            THEN IF Len(device.children) # 1 \/ device.children[1].type # "crypt"
                   THEN /\ SupportedVolumeReturns(NoValue)
                        /\ UNCHANGED <<volume, full_unlocked_name>>
                   ELSE /\ volume' = vol
                        /\ full_unlocked_name' = _DEVMAPPER_PREFIX \o device.children[1].name
                        /\ pc' = IF NeedsClassification(vol.encryption) THEN "classify" ELSE "wrap"
                        /\ UNCHANGED <<todo, volumes>>
            ELSE /\ SupportedVolumeReturns(IF Supported(vol.encryption) THEN vol ELSE NoValue)
                 /\ UNCHANGED <<volume, full_unlocked_name>>
    /\ UNCHANGED <<op, encryption_key, mountpoint, retries, exitstatus, children,
                   is_error, should_close_volume, error_status, pending, closed, result,
                   log, targets, mounted, run, api>>

\* A mutation of IsItVeracrypt: a failed query counts as a LUKS marker.
IsItVeracrypt_ErrorAsLuks(info) ==
    IF info = "crypto_TCRYPT" THEN "VERACRYPT"
    ELSE IF info \in {"crypto_LUKS", "CalledProcessError"} THEN "LUKS"
    ELSE "UNKNOWN"

\* _is_it_veracrypt: the scheme for what udisksctl info printed;
\* CalledProcessError is caught and gives UNKNOWN.
IsItVeracrypt(info) ==
    IF info = "crypto_TCRYPT" THEN "VERACRYPT"
    ELSE IF info = "crypto_LUKS" THEN "LUKS"
    ELSE "UNKNOWN"

\* Line 182: vol.encryption = self._is_it_veracrypt(vol), with its
\* subprocess.check_output(["udisksctl", "info", "--block-device", device_name]);
\* an OSError of check_output is caught neither there nor in get_volume.
Classify ==
    /\ pc = "classify"
    /\ \E info \in IdTypeOutputs :
        /\ log' = Append(log, Cmd("info_idtype", volume.device_name, info))
        /\ IF info = "OSError"
             THEN /\ Escapes(info)
                  /\ UNCHANGED volume
             ELSE /\ volume' = [volume EXCEPT !.encryption = IsItVeracrypt(info)]
                  /\ pc' = "wrap"
                  /\ UNCHANGED result
    /\ UNCHANGED <<op, encryption_key, full_unlocked_name, mountpoint, retries,
                   exitstatus, children, is_error, should_close_volume, error_status,
                   pending, closed, targets, todo, volumes, mounted, run, api>>

\* Lines 184-211 for a single crypt child: a mounted child is wrapped as a
\* MountedVolume; an unmounted one is mounted if the scheme is supported;
\* otherwise the record is rejected.
Wrap ==
    /\ pc = "wrap"
    /\ LET child == Head(todo).children[1] IN
       IF child.mountpoint # ""
         THEN /\ SupportedVolumeReturns(MountedVolume(volume.device_name, full_unlocked_name,
                                                      volume.encryption, child.mountpoint))
              /\ UNCHANGED <<retries, mountpoint>>
         ELSE IF Supported(volume.encryption)
                THEN /\ retries' = 0
                     /\ mountpoint' = ""
                     /\ pc' = "info"
                     /\ UNCHANGED <<todo, volumes>>
                ELSE /\ SupportedVolumeReturns(NoValue)
                     /\ UNCHANGED <<retries, mountpoint>>
    /\ UNCHANGED <<op, volume, encryption_key, full_unlocked_name, exitstatus, children,
                   is_error, should_close_volume, error_status, pending, closed, result,
                   log, targets, mounted, run, api>>

----------------------------------------------------------------------------
(* The API client: API._send_json_request and the methods built on it.     *)

FORBIDDEN == 403

NOT_FOUND == 404

BAD_REQUEST == 400

BAD_GATEWAY == 502

GATEWAY_TIMEOUT == 504

\* The methods of API that are modelled.
Methods == {"authenticate", "get_source", "get_submission", "delete_submission",
            "download_submission", "get_reply_from_source", "delete_reply",
            "reply_source"}

\* Methods whose path_query ends with "/download".
Downloads == {"download_submission"}

\* Values of the source identifier and of the item identifier of the object
\* handed to a method: None, the empty string, a UUID.
Uuids == {None, "", "uuid-1"}

\* Python's truth value of an identifier.
Truthy(x) == x \notin {None, ""}

StatusCodes == {200, BAD_REQUEST, FORBIDDEN, NOT_FOUND, BAD_GATEWAY, GATEWAY_TIMEOUT}

\* A response body: the JSON object the endpoint sends on success, a JSON
\* object with the key "error", or text that is not JSON.
Bodies == {"object", "error", "not_json"}

\* What requests.request does: one of its exceptions, or a response.
HttpResponses ==
    [transport : {"ConnectTimeout", "ReadTimeout", "TooManyRedirects", "ConnectionError"},
     status : {0}, body : {""}]
    \cup [transport : {"response"}, status : StatusCodes, body : Bodies]

\* What json_query gives: TimeoutExpired of communicate, empty output, output
\* that is not JSON, or the proxy's JSON envelope of status and body.
RpcResponses ==
    [transport : {"TimeoutExpired", "empty", "not_json"}, status : {0}, body : {""}]
    \cup [transport : {"response"}, status : StatusCodes, body : Bodies]

Responses(proxy) == IF proxy THEN RpcResponses ELSE HttpResponses

\* How a function of the client ends: with an exception, or with the data and
\* the status code it returns.
Raising(e) == [kind |-> "exception", status |-> e, data |-> "", status_code |-> 0]

Returning(data, status_code) ==
    [kind |-> "return", status |-> "", data |-> data, status_code |-> status_code]

\* Lines 140-171. result.json() at 171 is in no try block.
_send_http_json_request(download, r) ==
    IF r.transport \in {"ConnectTimeout", "ReadTimeout"}
      THEN Raising("RequestTimeoutError")
    ELSE IF r.transport \in {"TooManyRedirects", "ConnectionError"}
      THEN Raising("ServerConnectionError")
    ELSE IF r.status = FORBIDDEN
      THEN Raising("AuthError")
    ELSE IF download
      THEN Returning(r.body, r.status)
    ELSE IF r.body = "not_json"
      THEN Raising("JSONDecodeError")
    ELSE Returning(r.body, r.status)

\* Lines 48-72 and 173-220. json.loads(result["body"]) at 203 is outside the
\* try block of 198-201.
_send_rpc_json_request(r) ==
    IF r.transport = "TimeoutExpired"
      THEN Raising("RequestTimeoutError")
    ELSE IF r.transport = "empty"
      THEN Raising("BaseError")
    ELSE IF r.transport = "not_json"
      THEN Raising("BaseError")
    ELSE IF r.body = "not_json"
      THEN Raising("JSONDecodeError")
    ELSE IF r.body = "error" /\ r.status = GATEWAY_TIMEOUT
      THEN Raising("RequestTimeoutError")
    ELSE IF r.body = "error" /\ r.status = BAD_GATEWAY
      THEN Raising("ServerConnectionError")
    ELSE IF r.body = "error" /\ r.status = FORBIDDEN
      THEN Raising("AuthError")
    ELSE IF r.body = "error" /\ r.status = BAD_REQUEST
      THEN Raising("ReplyError")
    ELSE IF r.body = "error" /\ r.status # NOT_FOUND
      THEN Raising("BaseError")
    ELSE Returning(r.body, r.status)

\* Lines 125-138.
_send_json_request(proxy, download, r) ==
    IF proxy THEN _send_rpc_json_request(r) ELSE _send_http_json_request(download, r)

\* Lines 222-263: the only method that catches the JSON decode error.
authenticate(a, r) ==
    LET sent == _send_json_request(a.proxy, FALSE, r) IN
    IF sent.kind = "exception"
      THEN IF sent.status = "JSONDecodeError" THEN Raising("BaseError") ELSE sent
    ELSE IF sent.data # "object"
      THEN Raising("AuthError")
    ELSE sent

\* The tail shared by the fetch, delete and download methods: status 404 is
\* WrongUUIDError, anything else is handed to the caller (lines 315-318,
\* 554-560, 602-618, 863-869).
MissingOrData(sent) ==
    IF sent.kind = "exception"
      THEN sent
    ELSE IF sent.status_code = NOT_FOUND
      THEN Raising("WrongUUIDError")
    ELSE sent

\* Lines 298-318.
get_source(a, r) == MissingOrData(_send_json_request(a.proxy, FALSE, r))

\* Lines 534-560.
delete_submission(a, r) == MissingOrData(_send_json_request(a.proxy, FALSE, r))

\* Lines 574-618.
download_submission(a, r) == MissingOrData(_send_json_request(a.proxy, TRUE, r))

\* Lines 842-869.
delete_reply(a, r) == MissingOrData(_send_json_request(a.proxy, FALSE, r))

\* Lines 481, 756: the test that guards the request of get_submission and of
\* get_reply_from_source.
HasIdentifiers(a) == Truthy(a.source_uuid) /\ a.uuid # None

\* Lines 474-495: status_code is assigned only under the test of line 481 and
\* read at 492 in every case.
get_submission(a, r) ==
    IF HasIdentifiers(a)
      THEN MissingOrData(_send_json_request(a.proxy, FALSE, r))
      ELSE Raising("UnboundLocalError")

\* Lines 748-772: reply is assigned only under the test of line 756 and
\* returned at 772 in every case.
get_reply_from_source(a, r) ==
    IF HasIdentifiers(a)
      THEN MissingOrData(_send_json_request(a.proxy, FALSE, r))
      ELSE Raising("UnboundLocalError")

\* Lines 692-719.
reply_source(a, r) ==
    LET sent == _send_json_request(a.proxy, FALSE, r) IN
    IF sent.kind = "exception"
      THEN sent
    ELSE IF sent.data = "object"
      THEN sent
    ELSE Raising("ReplyError")

\* The method sends a request: every method but the two that test the
\* identifiers first.
SendsRequest(a) ==
    a.method \in {"get_submission", "get_reply_from_source"} => HasIdentifiers(a)

\* The caller invokes a method of the API object with an object whose
\* identifiers are source_uuid and uuid.
Call_api(method, source_uuid, uuid, proxy) ==
    /\ pc = "idle"
    /\ op' = method
    /\ api' = [method |-> method, source_uuid |-> source_uuid, uuid |-> uuid,
               proxy |-> proxy, response |-> NoResponse]
    /\ pc' = "request"
    /\ run' = NoRun
    /\ UNCHANGED <<volume, encryption_key, full_unlocked_name, mountpoint, retries,
                   exitstatus, children, is_error, should_close_volume, error_status,
                   pending, closed, result, log, targets, todo, volumes, mounted>>

\* The body of the method: the request, if one is sent, the response r and
\* what the method makes of it.
Request ==
    /\ pc = "request"
    /\ \E r \in (IF SendsRequest(api) THEN Responses(api.proxy) ELSE {NoResponse}) :
         LET ended == CASE api.method = "authenticate" -> authenticate(api, r)
                        [] api.method = "get_source" -> get_source(api, r)
                        [] api.method = "get_submission" -> get_submission(api, r)
                        [] api.method = "delete_submission" -> delete_submission(api, r)
                        [] api.method = "download_submission" -> download_submission(api, r)
                        [] api.method = "get_reply_from_source" -> get_reply_from_source(api, r)
                        [] api.method = "delete_reply" -> delete_reply(api, r)
                        [] api.method = "reply_source" -> reply_source(api, r)
         IN /\ api' = [api EXCEPT !.response = r]
            /\ IF ended.kind = "exception" THEN Escapes(ended.status) ELSE Return(NoValue)
    /\ UNCHANGED <<op, volume, encryption_key, full_unlocked_name, mountpoint, retries,
                   exitstatus, children, is_error, should_close_volume, error_status,
                   pending, closed, log, targets, todo, volumes, mounted, run>>

----------------------------------------------------------------------------
(* The caller                                                              *)

\* The commands of the log that act on the device or on the files, in order.
DeviceCommands == {"unlock", "mount", "mkdir", "cp", "sync", "rm", "unmount", "lock"}

IsDeviceCommand(e) == e.cmd \in DeviceCommands /\ e.out # "absent"

RECURSIVE Commands(_)
Commands(entries) ==
    IF entries = <<>>
      THEN <<>>
      ELSE (IF IsDeviceCommand(Head(entries)) THEN <<Head(entries).cmd>> ELSE <<>>)
           \o Commands(Tail(entries))

\* The run of the caller after the call that ends: get_volume that returned a
\* locked volume starts a run (stage 1); unlock_volume of that volume that
\* unlocked and mounted it continues it (stage 2), handing on the
\* MountedVolume; any other call ends the run.
RunAfter ==
    IF op = "get_volume" /\ result.kind = "return" /\ result.value.cls = "Volume"
      THEN [stage |-> 1, value |-> result.value, cmds |-> Commands(log)]
    ELSE IF /\ op = "unlock_volume"
            /\ run.stage = 1
            /\ volume = run.value
            /\ result.kind = "return"
            /\ \E i \in DOMAIN log : log[i].cmd = "expect_unlock" /\ log[i].out = "Unlocked"
            /\ \E i \in DOMAIN log : log[i].cmd = "mount" /\ log[i].out = "Mounted"
      THEN [stage |-> 2, value |-> result.value, cmds |-> run.cmds \o Commands(log)]
    ELSE NoRun

\* The caller takes the result; the CLI object is ready for the next call.
Done ==
    /\ pc = "done"
    /\ pc' = "idle"
    /\ op' = ""
    /\ volume' = NoValue
    /\ encryption_key' = ""
    /\ full_unlocked_name' = ""
    /\ mountpoint' = ""
    /\ retries' = 0
    /\ exitstatus' = -1
    /\ children' = 0
    /\ is_error' = FALSE
    /\ should_close_volume' = TRUE
    /\ error_status' = ""
    /\ pending' = ""
    /\ closed' = NoValue
    /\ result' = NoResult
    /\ log' = <<>>
    /\ targets' = <<>>
    /\ todo' = <<>>
    /\ volumes' = <<>>
    /\ run' = RunAfter
    /\ api' = NoRequest
    /\ UNCHANGED mounted

Next ==
    \/ \E device \in MountedVolumes : Call_write_data_to_device(device)
    \/ Mkdir
    \/ Cp
    \/ Finally
    \/ \E mv \in MountedVolumes, is_err \in BOOLEAN, scv \in BOOLEAN :
           Call_cleanup(mv, is_err, scv)
    \/ Sync
    \/ RemoveTempDirectory
    \/ Unmount
    \/ Lock
    \/ \E v \in Volumes, key \in Passphrases : Call_unlock_volume(v, key)
    \/ SpawnUnlock
    \/ ExpectPrompt
    \/ ExpectUnlock
    \/ Info
    \/ Mount
    \/ Call_get_volume
    \/ Status
    \/ Lsblk
    \/ SelectVolume
    \/ Inspect
    \/ Classify
    \/ Wrap
    \/ \E method \in Methods, source_uuid \in Uuids, uuid \in Uuids, proxy \in BOOLEAN :
           Call_api(method, source_uuid, uuid, proxy)
    \/ Request
    \/ Done

Spec == Init /\ [][Next]_vars

\* The steps of the program: everything but the caller's invocations and its
\* taking of the result.
Step ==
    \/ Mkdir \/ Cp \/ Finally \/ Sync \/ RemoveTempDirectory \/ Unmount \/ Lock
    \/ SpawnUnlock \/ ExpectPrompt \/ ExpectUnlock \/ Info \/ Mount
    \/ Status \/ Lsblk \/ SelectVolume \/ Inspect \/ Classify \/ Wrap
    \/ Request

\* The program keeps running: every expect ends with a match, EOF or its
\* timeout, and every subprocess call ends.
LiveSpec == Init /\ [][Next]_vars /\ WF_vars(Step)

----------------------------------------------------------------------------
(* Properties. They read the history of the running call.                  *)

\* Positions of the log at which command c was recorded.
Entries(c) == {i \in DOMAIN log : log[i].cmd = c}

\* The command recorded at position i did not succeed.
Failed(i) == log[i].out \in {"CalledProcessError", "OSError"}

\* The command recorded at position i ran and exited with a failure status.
ExitedWithFailure(i) == log[i].out = "CalledProcessError"

\* mkdir or the copy failed in the running call.
ExportFailed == \E i \in Entries("mkdir") \cup Entries("cp") : Failed(i)

\* The write attempt of write_data_to_device has ended: mkdir or cp failed, or
\* cp was run.
WriteAttemptEnded == ExportFailed \/ Entries("cp") # {}

Raised(s) == result.kind = "raise" /\ result.status = s

InCleanup == pc \in {"sync", "rm", "unmount", "lock"}

\* C1: in every call of write_data_to_device cleanup is invoked exactly once,
\* after the write attempt (mkdir, cp) has ended, and it is given
\* is_error = true exactly when mkdir or the copy failed.
C1_CleanupExactlyOnce ==
    op = "write_data_to_device" =>
        /\ Cardinality(Entries("cleanup")) <= 1
        /\ (pc = "done" \/ InCleanup) => Cardinality(Entries("cleanup")) = 1
        /\ \A i \in Entries("cleanup") :
            /\ WriteAttemptEnded
            /\ \A j \in Entries("mkdir") \cup Entries("cp") : j < i
            /\ (log[i].out = "is_error") <=> ExportFailed

C1_Witness ==
    /\ op = "write_data_to_device"
    /\ pc = "done"
    /\ \E i \in Entries("cp") : Failed(i)
    /\ \E i \in Entries("cleanup") : log[i].out = "is_error"

\* C2 (as claimed): in a teardown with should_close_volume true, when the
\* unmount command fails, the lock step is still attempted before the
\* teardown ends.
C2_LockAfterFailedUnmount ==
    (/\ pc = "done"
     /\ should_close_volume
     /\ \E i \in Entries("unmount") : ExitedWithFailure(i))
        => \E i \in Entries("unmount"), j \in Entries("lock") : i < j

\* C3: in every teardown the lock step never comes before the unmount step of
\* the same teardown (the unmount command issued, or skipped because the
\* mountpoint is gone), and sync and the temp-directory removal precede both.
C3_UnmountBeforeLock ==
    /\ \A j \in Entries("lock") : \E i \in Entries("unmount") : i < j
    /\ \A k \in Entries("unmount") \cup Entries("lock") :
        /\ \E i \in Entries("sync") : i < k
        /\ \E i \in Entries("rm") : i < k

C3_Witness ==
    /\ pc = "done"
    /\ \E i \in Entries("unmount"), j \in Entries("lock") :
        log[i].out = "ok" /\ log[j].out = "ok"

\* C4 (as claimed): whenever mkdir or the copy fails in write_data_to_device
\* the status reported to the caller is ERROR_EXPORT, whatever happens in the
\* teardown that follows.
C4_ExportErrorNeverReplaced ==
    (op = "write_data_to_device" /\ pc = "done" /\ ExportFailed)
        => Raised("ERROR_EXPORT")

\* C5: when the copy fails in write_data_to_device and the sync command then
\* fails during cleanup, cleanup was run and the single status the caller sees
\* is ERROR_EXPORT, not ERROR_EXPORT_CLEANUP.
C5_CopyAndSyncFail ==
    (/\ op = "write_data_to_device"
     /\ \E i \in Entries("cp") : Failed(i)
     /\ \E i \in Entries("sync") : ExitedWithFailure(i))
        => /\ Cardinality(Entries("cleanup")) = 1
           /\ pc = "done"
           /\ Raised("ERROR_EXPORT")

C5_Witness ==
    /\ op = "write_data_to_device"
    /\ pc = "done"
    /\ \E i \in Entries("cp") : Failed(i)
    /\ \E i \in Entries("sync") : ExitedWithFailure(i)

\* C6 (as claimed): after a call of write_data_to_device, on every failure
\* path, the unmount step and the lock step have each been attempted (or
\* skipped only because the mountpoint / device node is gone).
C6_CloseOnEveryFailurePath ==
    (op = "write_data_to_device" /\ pc = "done" /\ result.kind = "raise")
        => Entries("unmount") # {} /\ Entries("lock") # {}

\* C7 (as claimed): in every call of cleanup the removal of the temporary
\* directory is attempted, whatever is_error, should_close_volume and the
\* outcome of sync.
C7_RemovalUnconditional ==
    (pc = "done" /\ Entries("cleanup") # {}) => Entries("rm") # {}

\* C8: when the unlock command answers the passphrase with the
\* incorrect-passphrase outcome, unlock_volume fails with ERROR_UNLOCK_LUKS and
\* in that run no device-info query and no mount command is issued and no
\* MountedVolume is created.
C8_IncorrectPassphrase ==
    (\E i \in Entries("expect_unlock") : log[i].out = "IncorrectPassphrase")
        => /\ pc = "done"
           /\ Raised("ERROR_UNLOCK_LUKS")
           /\ Entries("info") = {}
           /\ Entries("mount") = {}
           /\ result.value.cls # "MountedVolume"

C8_Witness ==
    /\ op = "unlock_volume"
    /\ pc = "done"
    /\ \E i \in Entries("expect_unlock") : log[i].out = "IncorrectPassphrase"
    /\ \E i \in Entries("sendline") : TRUE

\* C9: in unlock_volume the passphrase is sent at most once and only after
\* the passphrase prompt has been matched; if the prompt wait ends with EOF or
\* TIMEOUT, unlock_volume fails with ERROR_UNLOCK_GENERIC and the passphrase
\* is never sent.
C9_PassphraseAfterPrompt ==
    /\ Cardinality(Entries("sendline")) <= 1
    /\ \A j \in Entries("sendline") :
        \E i \in Entries("expect_prompt") : i < j /\ log[i].out = "Passphrase"
    /\ (\E i \in Entries("expect_prompt") : log[i].out \in {"EOF", "TIMEOUT"})
        => /\ Entries("sendline") = {}
           /\ pc = "done"
           /\ Raised("ERROR_UNLOCK_GENERIC")

C9_Witness ==
    /\ op = "unlock_volume"
    /\ pc = "done"
    /\ \E i \in Entries("expect_prompt") : log[i].out = "EOF"
    /\ Raised("ERROR_UNLOCK_GENERIC")

\* C10: after the passphrase is sent unlock_volume maps the unlock outcome
\* totally: freshly-unlocked or already-unlocked proceeds to mount with the
\* captured mapper name, incorrect passphrase raises ERROR_UNLOCK_LUKS, every
\* other outcome (EOF, TIMEOUT) raises ERROR_UNLOCK_GENERIC; the only statuses
\* unlock_volume raises are ERROR_UNLOCK_GENERIC, ERROR_UNLOCK_LUKS and
\* ERROR_MOUNT.
C10_UnlockOutcomeMapping ==
    op = "unlock_volume" =>
        /\ \A i \in Entries("expect_unlock") :
            /\ log[i].out \in {"Unlocked", "AlreadyUnlocked"} =>
                /\ pc \in {"info", "mount", "done"}
                /\ pc = "done" =>
                    /\ \E j \in Entries("mount") : j > i /\ log[j].arg = log[i].arg
                    /\ result.kind = "raise" => result.status = "ERROR_MOUNT"
            /\ log[i].out = "IncorrectPassphrase" =>
                pc = "done" /\ Raised("ERROR_UNLOCK_LUKS")
            /\ log[i].out \in {"EOF", "TIMEOUT"} =>
                pc = "done" /\ Raised("ERROR_UNLOCK_GENERIC")
        /\ (pc = "done" /\ Entries("sendline") # {}) => Entries("expect_unlock") # {}
        /\ pc = "done" =>
            \/ result.kind = "return" /\ result.value.cls = "MountedVolume"
            \/ /\ result.kind = "raise"
               /\ result.status \in {"ERROR_UNLOCK_GENERIC", "ERROR_UNLOCK_LUKS",
                                     "ERROR_MOUNT"}

C10_Witness ==
    /\ op = "unlock_volume"
    /\ pc = "done"
    /\ \E i \in Entries("expect_unlock") : log[i].out = "AlreadyUnlocked"
    /\ result.kind = "return"

----------------------------------------------------------------------------
(* Properties of the mount step and of get_volume.                         *)

\* The last command recorded is a mount command.
LastIsMount == log # <<>> /\ log[Len(log)].cmd = "mount"

\* udisksctl status succeeded in the running get_volume.
StatusRead == \E i \in Entries("status") : log[i].out = "ok"

\* lsblk succeeded and listed block devices in the running get_volume.
TopologyRead == \E i \in Entries("lsblk") : log[i].out = "ok"

\* A call of unlock_volume on a volume that is unlocked and mounted already.
C11_Second ==
    /\ op = "unlock_volume"
    /\ pc = "done"
    /\ \E i \in Entries("expect_unlock") : log[i].out = "AlreadyUnlocked"
    /\ \E j \in Entries("mount") : log[j].out = "AlreadyMounted"

\* C11: idempotence of unlock. An unlock_volume call whose unlock command
\* reports already-unlocked and whose mount command reports already-mounted
\* (the volume was mounted by an earlier call) returns a MountedVolume with the
\* mountpoint at which the volume is mounted, the one the call that mounted
\* it returned, and creates no second mount: one mount command, answered
\* already-mounted, and the volume still mounted once.
C11_UnlockIdempotent ==
    /\ C11_Second =>
        /\ result.kind = "return"
        /\ Cardinality(Entries("mount")) = 1
    /\ (op = "unlock_volume" /\ pc = "done" /\ result.kind = "return") =>
        /\ result.value.cls = "MountedVolume"
        /\ result.value.device_name = volume.device_name
        /\ result.value.mountpoint = MountpointOf(volume.device_name)
        /\ volume.device_name \in mounted

C11_Witness == C11_Second /\ result.kind = "return"

\* C12: _mount_volume returns a MountedVolume only when the mount command
\* reported a freshly-mounted or already-mounted path that is not empty; in
\* every other outcome it raises ERROR_MOUNT. Every MountedVolume produced by
\* get_volume, unlock_volume or _mount_volume has a non-empty mountpoint.
C12_MountpointNonEmpty ==
    /\ [][(Len(log') = Len(log) + 1 /\ log'[Len(log')].cmd = "mount") =>
            IF log'[Len(log')].out \in {"Mounted", "AlreadyMounted"} /\ mountpoint' # ""
              THEN LET mv == IF op = "get_volume" THEN volumes'[Len(volumes')]
                                                  ELSE result'.value IN
                   /\ op = "get_volume" => Len(volumes') = Len(volumes) + 1
                   /\ op # "get_volume" => pc' = "done" /\ result'.kind = "return"
                   /\ mv.cls = "MountedVolume"
                   /\ mv.mountpoint = mountpoint'
              ELSE /\ pc' = "done"
                   /\ result' = [kind |-> "raise", status |-> "ERROR_MOUNT",
                                 value |-> NoValue]
                   /\ volumes' = volumes]_vars
    /\ [](/\ (result.kind = "return" /\ result.value.cls = "MountedVolume")
               => result.value.mountpoint # ""
          /\ \A i \in DOMAIN volumes :
               volumes[i].cls = "MountedVolume" => volumes[i].mountpoint # "")

C12_Witness ==
    /\ pc = "done"
    /\ LastIsMount
    /\ log[Len(log)].out = "Mounted"
    /\ mountpoint = ""
    /\ Raised("ERROR_MOUNT")

\* C13: get_volume decides on the number of attached devices first: no device
\* listed gives NO_DEVICE_DETECTED, more than one MULTI_DEVICE_DETECTED, both
\* without any topology query, device-info query or mount command.
C13_DeviceCountFirst ==
    (op = "get_volume" /\ StatusRead /\ Len(targets) # 1) =>
        /\ pc = "done"
        /\ Len(targets) = 0 => Raised("NO_DEVICE_DETECTED")
        /\ Len(targets) > 1 => Raised("MULTI_DEVICE_DETECTED")
        /\ Entries("lsblk") = {}
        /\ Entries("info_idtype") = {}
        /\ Entries("info") = {}
        /\ Entries("mount") = {}

C13_Witness ==
    /\ op = "get_volume"
    /\ Len(targets) = 2
    /\ Raised("MULTI_DEVICE_DETECTED")

\* C14 (as claimed): for every topology without an eligible attached device
\* (attached and writable) selection fails with NO_DEVICE_DETECTED, also when
\* the only attached device is read-only or is not in the block topology.
C14_NoEligibleDeviceIsNoDevice ==
    (/\ op = "get_volume"
     /\ pc = "done"
     /\ \E i \in Entries("lsblk") :
          log[i].out = "ok" /\ log[i].arg = "no writable attached device")
        => Raised("NO_DEVICE_DETECTED")

\* C14 (amended): selection fails with NO_DEVICE_DETECTED when the enumeration
\* lists no device; when it lists one device and the block topology holds no
\* device that is attached and writable (the attached one is read-only or is
\* not listed), nothing is inspected and selection fails with
\* INVALID_DEVICE_DETECTED.
C14_NoEligibleDevice ==
    op = "get_volume" =>
        /\ (StatusRead /\ Len(targets) = 0)
            => pc = "done" /\ Raised("NO_DEVICE_DETECTED")
        /\ \A i \in Entries("lsblk") :
            (log[i].out = "ok" /\ log[i].arg = "no writable attached device")
                => /\ todo = <<>>
                   /\ volumes = <<>>
                   /\ Len(log) = i
                   /\ \/ pc = "inspect"
                      \/ pc = "done" /\ Raised("INVALID_DEVICE_DETECTED")

C14_Witness ==
    /\ op = "get_volume"
    /\ pc = "done"
    /\ \E i \in Entries("lsblk") :
          log[i].out = "ok" /\ log[i].arg = "no writable attached device"
    /\ Raised("INVALID_DEVICE_DETECTED")

\* The volumes found that are eligible: of scheme LUKS or VERACRYPT.
EligibleFound ==
    {i \in DOMAIN volumes : volumes[i].encryption \in {"LUKS", "VERACRYPT"}}

\* C15 (as claimed): with one attached device get_volume returns a volume if
\* and only if exactly one eligible volume is found on it, and fails with
\* INVALID_DEVICE_DETECTED with zero or with two or more; here for the runs
\* in which no mount was attempted.
C15_OneVolumeOrInvalid ==
    (op = "get_volume" /\ pc = "done" /\ TopologyRead /\ Entries("mount") = {}) =>
        \/ /\ result.kind = "return"
           /\ Cardinality(EligibleFound) = 1
           /\ \E i \in EligibleFound : result.value = volumes[i]
        \/ /\ Raised("INVALID_DEVICE_DETECTED")
           /\ Cardinality(EligibleFound) # 1

\* C16 (as claimed): every volume returned by get_volume, locked Volume or
\* MountedVolume, has encryption scheme LUKS or VERACRYPT.
C16_ReturnedVolumeIsSupported ==
    (op = "get_volume" /\ result.kind = "return")
        => result.value.encryption \in {"LUKS", "VERACRYPT"}

\* C17: get_volume fails with DEVICE_ERROR, and returns no volume, whenever the
\* topology output is not well-formed or holds no block devices, and whenever
\* the enumeration or the topology command exits with failure.
C17_DeviceError ==
    (\/ \E i \in Entries("status") : log[i].out = "CalledProcessError"
     \/ \E i \in Entries("lsblk") :
          log[i].out \in {"CalledProcessError", "JSONDecodeError", "no blockdevices"})
        => /\ pc = "done"
           /\ Raised("DEVICE_ERROR")
           /\ result.value = NoValue
           /\ volumes = <<>>

C17_Witness ==
    /\ op = "get_volume"
    /\ \E i \in Entries("lsblk") : log[i].out = "no blockdevices"
    /\ Raised("DEVICE_ERROR")

\* C18: a partition whose filesystem type is the LUKS signature is classified
\* LUKS directly and stays LUKS, and device info is not queried for it; for a
\* partition without the signature a LUKS marker in device info gives LUKS and
\* a TCRYPT marker gives VERACRYPT.
C18_Classification ==
    op = "get_volume" =>
        /\ pc = "classify" => Head(todo).fstype # "crypto_LUKS"
        /\ (pc \in {"wrap", "info", "mount"} /\ Head(todo).fstype = "crypto_LUKS")
            => /\ volume.encryption = "LUKS"
               /\ \A i \in Entries("info_idtype") : log[i].arg # volume.device_name
        /\ (pc = "wrap" /\ Head(todo).fstype # "crypto_LUKS")
            => /\ log[Len(log)].cmd = "info_idtype"
               /\ log[Len(log)].arg = volume.device_name
               /\ log[Len(log)].out = "crypto_LUKS" => volume.encryption = "LUKS"
               /\ log[Len(log)].out = "crypto_TCRYPT" => volume.encryption = "VERACRYPT"
        /\ \A i \in DOMAIN volumes :
            (\A j \in Entries("info_idtype") : log[j].arg # volumes[i].device_name)
                => volumes[i].encryption = "LUKS"

C18_Witness ==
    /\ op = "get_volume"
    /\ pc = "wrap"
    /\ Head(todo).fstype = "crypto_LUKS"
    /\ \E i \in Entries("info_idtype") : log[i].out = "crypto_TCRYPT"
    /\ \E i \in DOMAIN volumes : volumes[i].encryption = "VERACRYPT"

\* C19 (as claimed): after a failure of the device-info command during
\* classification get_volume ends with a volume or INVALID_DEVICE_DETECTED.
C19_InfoFailureThenVolumeOrInvalid ==
    (/\ op = "get_volume"
     /\ pc = "done"
     /\ \E i \in Entries("info_idtype") : log[i].out = "CalledProcessError")
        => result.kind = "return" \/ Raised("INVALID_DEVICE_DETECTED")

\* C19 (amended): a failure of the device-info command during classification
\* never aborts selection: the classifier yields UNKNOWN, raises nothing, no
\* mount is tried for that partition, get_volume goes on with the remaining
\* partitions and ends with a volume, with INVALID_DEVICE_DETECTED or, when the
\* mount of another partition fails, with ERROR_MOUNT; never with DEVICE_ERROR.
\* (A later device-info command that cannot be started ends get_volume with
\* its OSError.)
C19_InfoFailureIsNotFatal ==
    op = "get_volume" =>
        \A i \in Entries("info_idtype") :
            log[i].out = "CalledProcessError" =>
                /\ ~Raised("DEVICE_ERROR")
                /\ (i = Len(log) /\ volume.device_name = log[i].arg) =>
                    /\ pc \in {"wrap", "inspect", "done"}
                    /\ pc = "wrap" => volume.encryption = "UNKNOWN"
                    /\ pc = "done" => ~Raised("ERROR_MOUNT")
                /\ \A j \in Entries("info") : log[j].arg # log[i].arg
                /\ pc = "done" =>
                    \/ result.kind = "return"
                    \/ Raised("INVALID_DEVICE_DETECTED")
                    \/ /\ Raised("ERROR_MOUNT")
                       /\ LastIsMount
                       /\ volume.device_name # log[i].arg
                    \/ /\ result.kind = "exception"
                       /\ log[Len(log)].out = "OSError"
                       /\ Len(log) > i

C19_Witness ==
    /\ op = "get_volume"
    /\ pc = "done"
    /\ \E i \in Entries("info_idtype") : log[i].out = "CalledProcessError"
    /\ Len(volumes) = 1
    /\ result.kind = "return"

\* C20: when the export itself succeeded (is_error false) a teardown failure
\* is reported with the status of the failing step: sync or temp-directory
\* removal ERROR_EXPORT_CLEANUP, unmount ERROR_UNMOUNT_VOLUME_BUSY, lock
\* ERROR_EXPORT_CLEANUP.
C20_TeardownFailureStatus ==
    (pc = "done" /\ \E i \in Entries("cleanup") : log[i].out = "no_error") =>
        /\ (\E i \in Entries("sync") : ExitedWithFailure(i)) => Raised("ERROR_EXPORT_CLEANUP")
        /\ (\E i \in Entries("rm") : ExitedWithFailure(i)) => Raised("ERROR_EXPORT_CLEANUP")
        /\ (\E i \in Entries("unmount") : ExitedWithFailure(i)) => Raised("ERROR_UNMOUNT_VOLUME_BUSY")
        /\ (\E i \in Entries("lock") : ExitedWithFailure(i)) => Raised("ERROR_EXPORT_CLEANUP")

C20_Witness ==
    /\ op = "write_data_to_device"
    /\ pc = "done"
    /\ \E i \in Entries("cleanup") : log[i].out = "no_error"
    /\ \E i \in Entries("rm") : ExitedWithFailure(i)
    /\ Raised("ERROR_EXPORT_CLEANUP")

----------------------------------------------------------------------------
(* Properties of teardown, of the whole run and of the mount step.         *)

\* The running call is cleanup(volume, tmpdir, is_error, should_close_volume =
\* False).
KeepVolume == \E i \in Entries("cleanup") : log[i].arg = "keep"

\* C21: cleanup called with should_close_volume = false performs sync and the
\* removal of the temporary directory but issues neither unmount nor lock: the
\* volume stays mounted and unlocked.
C21_KeepVolumeOpen ==
    /\ [](KeepVolume =>
            /\ Entries("unmount") = {}
            /\ Entries("lock") = {}
            /\ closed = NoValue
            /\ (pc = "done" /\ result.kind = "return") =>
                  /\ \E i \in Entries("sync") : log[i].out = "ok"
                  /\ \E i \in Entries("rm") : log[i].out = "ok"
            /\ (pc = "done" /\ \A i \in DOMAIN log :
                                  log[i].out \notin {"CalledProcessError", "OSError"})
                  => result.kind = "return")
    /\ [][(op = "cleanup" /\ ~should_close_volume' /\ pc \in {"sync", "rm"})
            => mounted' = mounted]_vars

C21_Witness ==
    /\ op = "cleanup"
    /\ pc = "done"
    /\ KeepVolume
    /\ result.kind = "return"
    /\ volume.device_name \in mounted

\* C22: closing a volume is a no-op for whatever is already gone: without the
\* mountpoint no unmount command is issued, without the unlocked device node
\* no lock command is issued, neither case raises, and the two tests are
\* independent: after an absent mountpoint the unlocked device is still
\* tested and, if present, locked.
C22_CloseIsNoOpForAbsent ==
    /\ \A i \in Entries("unmount") :
        log[i].out = "absent" =>
            /\ ~Raised("ERROR_UNMOUNT_VOLUME_BUSY")
            /\ i = Len(log) => pc = "lock" /\ result.kind = "none"
            /\ pc = "done" => Entries("lock") = {i + 1}
    /\ \A i \in Entries("lock") :
        log[i].out = "absent" =>
            /\ i = Len(log)
            /\ pc = "done"
            /\ closed # NoValue
            /\ \/ result.kind = "return"
               \/ op = "write_data_to_device" /\ ExportFailed /\ Raised("ERROR_EXPORT")

C22_Witness ==
    /\ pc = "done"
    /\ \E i \in Entries("unmount") : log[i].out = "absent"
    /\ \E i \in Entries("lock") : log[i].out = "ok"
    /\ result.kind = "return"

\* Every command of the running call succeeded (the entries of cleanup are
\* marks of its invocation, not commands).
AllSucceeded == \A i \in DOMAIN log : log[i].cmd # "cleanup" => log[i].out = "ok"

\* C23: end-to-end success. After get_volume returned the locked LUKS volume
\* of the device and unlock_volume unlocked and mounted it, a
\* write_data_to_device on the MountedVolume with every command succeeding
\* ends without an error status, and the commands of the run were, in this
\* order: unlock, mount, mkdir, cp, sync, rm, unmount, lock.
C23_EndToEnd ==
    /\ run.stage = 1 => run.value.cls = "Volume" /\ run.value.encryption = "LUKS"
    /\ run.stage = 2 => /\ run.value.cls = "MountedVolume"
                        /\ run.value.encryption = "LUKS"
                        /\ run.cmds = <<"unlock", "mount">>
    /\ (/\ run.stage = 2
        /\ op = "write_data_to_device"
        /\ volume = run.value
        /\ pc = "done"
        /\ AllSucceeded)
        => /\ result.kind = "return"
           /\ run.cmds \o Commands(log)
                = <<"unlock", "mount", "mkdir", "cp", "sync", "rm", "unmount", "lock">>

C23_Witness ==
    /\ run.stage = 2
    /\ op = "write_data_to_device"
    /\ volume = run.value
    /\ pc = "done"
    /\ AllSucceeded
    /\ result.kind = "return"

\* Command c was run and succeeded.
Succeeded(c) == \E i \in Entries(c) : log[i].out = "ok"

\* The step of _close_volume recorded as c succeeded or had nothing to do.
ClosedStep(c) == \E i \in Entries(c) : log[i].out \in {"ok", "absent"}

\* C24: success is never reported partially. write_data_to_device returns
\* normally only if mkdir, cp, sync and the removal of the temporary directory
\* all succeeded and unmount and lock succeeded where the mountpoint and the
\* unlocked node still existed; a step that exits with failure yields exactly
\* one raised status and no normal return.
C24_NoPartialSuccess ==
    (op = "write_data_to_device" /\ pc = "done") =>
        /\ result.kind = "return" =>
            /\ Succeeded("mkdir")
            /\ Succeeded("cp")
            /\ Succeeded("sync")
            /\ Succeeded("rm")
            /\ ClosedStep("unmount")
            /\ ClosedStep("lock")
            /\ \A i \in DOMAIN log : ~Failed(i)
        /\ (\E i \in DOMAIN log : Failed(i)) => result.kind # "return"
        /\ (\E i \in DOMAIN log : ExitedWithFailure(i)
                                   /\ \A j \in DOMAIN log : log[j].out # "OSError")
            => /\ result.kind = "raise"
               /\ result.status \in {"ERROR_EXPORT", "ERROR_EXPORT_CLEANUP",
                                     "ERROR_UNMOUNT_VOLUME_BUSY"}
               /\ result.value = NoValue

C24_Witness ==
    /\ op = "write_data_to_device"
    /\ pc = "done"
    /\ Succeeded("mkdir")
    /\ \E i \in Entries("cp") : Failed(i)
    /\ ClosedStep("lock")
    /\ Raised("ERROR_EXPORT")

\* C25 (as claimed): the status mapping is total and closed. Every call ends
\* with a returned value or with one raised status of the enumeration:
\* get_volume only NO_DEVICE_DETECTED, MULTI_DEVICE_DETECTED,
\* INVALID_DEVICE_DETECTED, DEVICE_ERROR or ERROR_MOUNT, write_data_to_device
\* and cleanup only ERROR_EXPORT, ERROR_EXPORT_CLEANUP or
\* ERROR_UNMOUNT_VOLUME_BUSY, for every outcome of every external command.
C25_StatusMappingTotal ==
    (pc = "done" /\ op \notin Methods) =>
        /\ result.kind \in {"return", "raise"}
        /\ (op = "get_volume" /\ result.kind = "raise") =>
              result.status \in {"NO_DEVICE_DETECTED", "MULTI_DEVICE_DETECTED",
                                 "INVALID_DEVICE_DETECTED", "DEVICE_ERROR", "ERROR_MOUNT"}
        /\ (op \in {"write_data_to_device", "cleanup"} /\ result.kind = "raise") =>
              result.status \in {"ERROR_EXPORT", "ERROR_EXPORT_CLEANUP",
                                 "ERROR_UNMOUNT_VOLUME_BUSY"}
        /\ (op = "unlock_volume" /\ result.kind = "raise") =>
              result.status \in {"ERROR_UNLOCK_GENERIC", "ERROR_UNLOCK_LUKS", "ERROR_MOUNT"}

\* The commands that release the device and the temporary files.
TeardownEntries ==
    Entries("sync") \cup Entries("rm") \cup Entries("unmount") \cup Entries("lock")

\* C26: release is owned by teardown alone. get_volume, unlock_volume and
\* _mount_volume issue no unmount, lock, sync or removal of the temporary
\* directory on any path, their failure paths included, and unmount nothing;
\* these commands are issued only from cleanup.
C26_ReleaseOnlyInCleanup ==
    /\ [](/\ op \in {"get_volume", "unlock_volume"} => TeardownEntries = {}
          /\ \A i \in TeardownEntries : \E j \in Entries("cleanup") : j < i
          /\ pc \in {"sync", "rm", "unmount", "lock"} => Entries("cleanup") # {})
    /\ [][(op \in {"get_volume", "unlock_volume"}) => mounted \subseteq mounted']_vars

C26_Witness ==
    /\ op = "unlock_volume"
    /\ pc = "done"
    /\ \E i \in Entries("expect_unlock") : log[i].out = "Unlocked"
    /\ Raised("ERROR_MOUNT")
    /\ TeardownEntries = {}

\* A call of _mount_volume is running.
InMountVolume == pc \in {"info", "mount"}

\* C27: no step hangs. Every call of unlock_volume and of _mount_volume ends,
\* with a MountedVolume or with ERROR_UNLOCK_GENERIC, ERROR_UNLOCK_LUKS or
\* ERROR_MOUNT, and the readiness loop is bounded by max_retries.
C27_Terminates ==
    /\ [](retries <= max_retries)
    /\ [](Cardinality(Entries("info")) <= max_retries * (1 + Cardinality(Entries("mount"))))
    /\ (op = "unlock_volume" /\ pc \notin {"idle", "done"})
          ~> (/\ op = "unlock_volume"
              /\ pc = "done"
              /\ \/ result.kind = "return" /\ result.value.cls = "MountedVolume"
                 \/ Raised("ERROR_UNLOCK_GENERIC")
                 \/ Raised("ERROR_UNLOCK_LUKS")
                 \/ Raised("ERROR_MOUNT"))
    /\ (op = "get_volume" /\ InMountVolume)
          ~> (/\ op = "get_volume"
              /\ ~InMountVolume
              /\ LastIsMount
              /\ \/ pc = "done" /\ Raised("ERROR_MOUNT")
                 \/ pc = "inspect" /\ volumes # <<>>
                                   /\ volumes[Len(volumes)].cls = "MountedVolume")

C27_Witness ==
    /\ op = "unlock_volume"
    /\ pc = "done"
    /\ Cardinality(Entries("info")) = max_retries
    /\ \A i \in Entries("info") : log[i].out = "NotRecognized"
    /\ Raised("ERROR_MOUNT")

\* The readiness queries of the running call for device d.
InfoOf(d) == {i \in Entries("info") : log[i].arg = d}

\* C29: readiness polling in _mount_volume. Device-info queries are issued one
\* after the other until the first that recognizes the device and never more
\* than 3 (max_retries); no query follows a recognizing one; then the mount
\* command is issued exactly once, also after 3 queries that did not recognize
\* the device.
C29_ReadinessPolling ==
    /\ \A i \in Entries("info") :
        LET recognized == log[i].out = "PreferredDevice"
            last == Cardinality({j \in InfoOf(log[i].arg) : j <= i}) = max_retries IN
        /\ Cardinality(InfoOf(log[i].arg)) <= max_retries
        /\ recognized => \A j \in InfoOf(log[i].arg) : j <= i
        /\ i < Len(log) =>
              IF recognized \/ last
                THEN log[i + 1].cmd = "mount"
                ELSE log[i + 1].cmd = "info" /\ log[i + 1].arg = log[i].arg
        /\ i = Len(log) =>
              IF recognized \/ last THEN pc = "mount" ELSE pc = "info"
    /\ \A m \in Entries("mount") :
        /\ m > 1
        /\ log[m - 1].cmd = "info"
    /\ op = "unlock_volume" => Cardinality(Entries("mount")) <= 1
    /\ (pc = "done" /\ op = "unlock_volume" /\ Entries("info") # {})
          => Cardinality(Entries("mount")) = 1

C29_Witness ==
    /\ op = "unlock_volume"
    /\ pc = "done"
    /\ Cardinality(Entries("info")) = max_retries
    /\ \A i \in Entries("info") : log[i].out = "NotRecognized"
    /\ \E m \in Entries("mount") : log[m].out = "Mounted"
    /\ result.kind = "return"

\* C30: the MountedVolume returned by _mount_volume carries the device path
\* and the encryption scheme of the input volume; its unlocked name is the name
\* passed in when the mount was fresh and the name the mount command reported
\* (which may differ) when the device was mounted already; its mountpoint is
\* the one the command reported.
C30_MountedVolumeFields ==
    [][(/\ Len(log') = Len(log) + 1
        /\ log'[Len(log')].cmd = "mount"
        /\ log'[Len(log')].out \in {"Mounted", "AlreadyMounted"}
        /\ log'[Len(log')].match[IF log'[Len(log')].out = "Mounted" THEN 1 ELSE 2] # "")
        => LET e == log'[Len(log')]
               mv == IF op = "get_volume" THEN volumes'[Len(volumes')] ELSE result'.value IN
           /\ mv.cls = "MountedVolume"
           /\ mv.device_name = volume.device_name
           /\ mv.encryption = volume.encryption
           /\ e.arg = full_unlocked_name
           /\ e.out = "Mounted" => /\ mv.unlocked_name = e.arg
                                   /\ mv.mountpoint = e.match[1]
           /\ e.out = "AlreadyMounted" => /\ mv.unlocked_name = e.match[1]
                                          /\ mv.mountpoint = e.match[2]]_vars

C30_Witness ==
    /\ op = "unlock_volume"
    /\ pc = "done"
    /\ result.kind = "return"
    /\ \E m \in Entries("mount") : /\ log[m].out = "AlreadyMounted"
                                   /\ log[m].match[1] # log[m].arg
                                   /\ result.value.unlocked_name = log[m].match[1]
                                   /\ result.value.mountpoint = log[m].match[2]

----------------------------------------------------------------------------
(* Properties of the API client.                                           *)

\* The exceptions the client's interface names.
ApiErrors == {"AuthError", "WrongUUIDError", "RequestTimeoutError",
              "ServerConnectionError", "ReplyError", "BaseError"}

\* C28: every failing call of the API client ends with AuthError,
\* WrongUUIDError, RequestTimeoutError, ServerConnectionError, ReplyError or
\* BaseError, whatever the object's identifiers and whatever the server sends,
\* missing identifiers and bodies that are not JSON included.
C28_ApiErrorsOnly ==
    (op \in Methods /\ pc = "done" /\ result.kind # "return")
        => result.kind = "exception" /\ result.status \in ApiErrors

----------------------------------------------------------------------------
(* Properties of selection: the shape of the children, the count.          *)

\* The record _get_supported_volume is looking at.
Partition == Head(todo)

\* The record has exactly one child, of crypt type.
SingleCryptChild(device) ==
    Len(device.children) = 1 /\ device.children[1].type = "crypt"

\* The step adds item to the volumes found and goes on to the next record.
Appends(item) == volumes' = Append(volumes, item) /\ todo' = Tail(todo) /\ pc' = "inspect"

\* The step rejects the record and goes on to the next one.
Rejects == volumes' = volumes /\ todo' = Tail(todo) /\ pc' = "inspect"

\* C31: for a partition with exactly one child of crypt type, a child that
\* reports a mountpoint is wrapped as a MountedVolume with that mountpoint and
\* the unlocked name /dev/mapper/<child name>, without a mount command; a child
\* without mountpoint is mounted, once and on /dev/mapper/<child name>, only
\* when the classification is LUKS or VERACRYPT, and with UNKNOWN the
\* partition is rejected without a mount attempt.
C31_SingleCryptChild ==
    /\ [][(op = "get_volume" /\ pc = "wrap") =>
            LET child == Partition.children[1]
                mapped_name == "/dev/mapper/" \o child.name
            IN /\ SingleCryptChild(Partition)
               /\ log' = log
               /\ child.mountpoint # "" =>
                    Appends(MountedVolume(volume.device_name, mapped_name,
                                          volume.encryption, child.mountpoint))
               /\ (child.mountpoint = "" /\ volume.encryption = "UNKNOWN") => Rejects
               /\ (child.mountpoint = "" /\ volume.encryption \in {"LUKS", "VERACRYPT"}) =>
                    pc' = "info" /\ full_unlocked_name = mapped_name]_vars
    /\ [][(op = "get_volume" /\ pc = "mount") =>
            /\ Len(log') = Len(log) + 1
            /\ log'[Len(log')].cmd = "mount"
            /\ log'[Len(log')].arg = "/dev/mapper/" \o Partition.children[1].name
            /\ pc' \in {"inspect", "done"}
            /\ pc' = "inspect" => todo' = Tail(todo)]_vars
    /\ [][(op = "get_volume" /\ ~(Entries("mount")' \subseteq Entries("mount")))
            => pc = "mount"]_vars
    /\ [](op = "get_volume" /\ pc \in {"info", "mount"} =>
            /\ SingleCryptChild(Partition)
            /\ Partition.children[1].mountpoint = ""
            /\ volume.encryption \in {"LUKS", "VERACRYPT"})

C31_Witness ==
    /\ op = "get_volume"
    /\ pc = "done"
    /\ result.kind = "return"
    /\ result.value.cls = "MountedVolume"
    /\ result.value.encryption = "VERACRYPT"
    /\ Cardinality(Entries("mount")) = 1
    /\ Cardinality(Entries("info_idtype")) = 2

\* C33: the child-shape rule. A record with more than one child, or with a
\* single child that is not of crypt type, is never eligible, whatever its own
\* filesystem type, the LUKS signature included. A record without children is
\* eligible if and only if its filesystem type is the LUKS signature (a locked
\* VeraCrypt volume, which shows no such signature, is rejected), and no
\* device-info or mount command is issued for it.
C33_ChildShape ==
    [][(op = "get_volume" /\ pc = "inspect" /\ todo # <<>>) =>
         /\ (Partition.children # <<>> /\ ~SingleCryptChild(Partition))
              => Rejects /\ log' = log
         /\ (Partition.children = <<>> /\ Partition.fstype = "crypto_LUKS")
              => Appends(Volume("/dev/" \o Partition.name, "LUKS")) /\ log' = log
         /\ (Partition.children = <<>> /\ Partition.fstype # "crypto_LUKS")
              => Rejects /\ log' = log]_vars

C33_Witness ==
    /\ op = "get_volume"
    /\ pc = "inspect"
    /\ volumes = <<Volume("/dev/sda1", "LUKS")>>
    /\ Entries("info_idtype") \cup Entries("info") \cup Entries("mount") = {}
    /\ todo # <<>>
    /\ Partition.fstype = "crypto_LUKS"
    /\ Len(Partition.children) = 2

\* The volumes of a list that have a supported encryption scheme.
SupportedIn(vs) == {i \in DOMAIN vs : vs[i].encryption \in {"LUKS", "VERACRYPT"}}

\* The records of a list that are LUKS partitions by their own signature,
\* locked (no children) or unlocked (one crypt child).
LuksIn(records) ==
    {i \in DOMAIN records :
        /\ records[i].fstype = "crypto_LUKS"
        /\ records[i].children = <<>> \/ SingleCryptChild(records[i])}

\* Supported encrypted partitions of the device that the ended call knows of:
\* those it found, and the LUKS partitions among the records it had not dealt
\* with when it ended.
KnownSupported == Cardinality(SupportedIn(volumes)) + Cardinality(LuksIn(todo))

\* C34 (as claimed): non-encrypted partitions are ignored, encrypted ones are
\* counted. A single attached writable device with exactly one supported
\* encrypted partition and any number of non-encrypted ones yields that
\* partition; with two or more supported encrypted partitions it yields
\* INVALID_DEVICE_DETECTED.
C34_EncryptedPartitionsCounted ==
    (op = "get_volume" /\ pc = "done" /\ TopologyRead) =>
        /\ (todo = <<>> /\ Len(volumes) = 1 /\ SupportedIn(volumes) = {1})
              => result.kind = "return" /\ result.value = volumes[1]
        /\ KnownSupported >= 2 => Raised("INVALID_DEVICE_DETECTED")

\* C37 (as claimed): get_volume changes device state only for the volume it
\* returns. When it fails with INVALID_DEVICE_DETECTED it has issued no mount
\* command; it raises ERROR_MOUNT only when the mount of the single eligible
\* candidate failed; when it returns, the one mount it may have issued is that
\* of the volume returned.
C37_MountOnlyForReturnedVolume ==
    (op = "get_volume" /\ pc = "done") =>
        /\ Raised("INVALID_DEVICE_DETECTED") => Entries("mount") = {}
        /\ Raised("ERROR_MOUNT") => volumes = <<>> /\ LuksIn(Tail(todo)) = {}
        /\ result.kind = "return" =>
              /\ Cardinality(Entries("mount")) <= 1
              /\ Entries("mount") # {} => result.value.cls = "MountedVolume"

----------------------------------------------------------------------------
(* Properties of the unlock child and of closing.                          *)

\* The unlock output of the running call matched freshly-unlocked or
\* already-unlocked.
UnlockMatched ==
    \E i \in Entries("expect_unlock") : log[i].out \in {"Unlocked", "AlreadyUnlocked"}

\* C32: once the unlock output matched freshly-unlocked or already-unlocked,
\* the exit status of the unlock child never changes the outcome: for every
\* exit status unlock_volume goes on to mount, and its result is decided by
\* the mount step alone: the MountedVolume if the mount command reported a
\* mountpoint, ERROR_MOUNT otherwise.
C32_ExitStatusIgnored ==
    (op = "unlock_volume" /\ UnlockMatched) =>
        /\ exitstatus \in ExitStatuses
        /\ pc \in {"info", "mount", "done"}
        /\ pc = "done" =>
            /\ LastIsMount
            /\ log[Len(log)].out \in {"Mounted", "AlreadyMounted"} /\ mountpoint # ""
                 => /\ result.kind = "return"
                    /\ result.value.mountpoint = mountpoint
            /\ ~(log[Len(log)].out \in {"Mounted", "AlreadyMounted"} /\ mountpoint # "")
                 => Raised("ERROR_MOUNT")

C32_Witness ==
    /\ op = "unlock_volume"
    /\ UnlockMatched
    /\ exitstatus = 2
    /\ pc = "done"
    /\ result.kind = "return"

\* C35 (as claimed): closing a MountedVolume gives back the bare Volume it
\* came from: the Volume returned by _close_volume has the device path and the
\* encryption scheme of the MountedVolume it was given.
C35_CloseGivesBackVolume ==
    closed # NoValue =>
        /\ closed.cls = "Volume"
        /\ closed.device_name = volume.device_name
        /\ closed.encryption = volume.encryption

\* C36 (as claimed): every interactive child process spawned by unlock_volume
\* or _mount_volume is closed before the operation returns or raises, on every
\* path, the one without passphrase prompt and those that end in
\* ERROR_UNLOCK_LUKS, ERROR_UNLOCK_GENERIC or ERROR_MOUNT included.
C36_ChildrenClosed ==
    (op \in {"unlock_volume", "get_volume"} /\ pc = "done") => children = 0

====
